---- MODULE Spec2Model ----
(***************************************************************************)
(* A model of tools/cgroup/iocost_monitor.py: the start-up that locates    *)
(* the iocost controller of a block device, the depth-first walk over the  *)
(* blkcg hierarchy (BlkgIterator), the per-group statistics (IocgStat)     *)
(* and the endless sampling loop that filters, renders and prints them.    *)
(*                                                                         *)
(* Strings are sequences of one-character strings.  Python's None is the   *)
(* empty tuple and a present value x is <<x>>.  A Python float produced by *)
(* the true division a / b is kept as the exact fraction [num, den].       *)
(***************************************************************************)
EXTENDS Integers, Sequences, FiniteSets

\* ------------------------------------------------------------------ bounds
MaxMembers == 3
MaxPatterns == 2
MaxQueues == 2
MaxSlots == 4
MaxUsage == 2
MaxUsageIdx == 4
MaxVtime == 2
MaxPeriod == 2
MaxRate == 2

\* ------------------------------------------------------- program constants
\* prog['HWEIGHT_WHOLE'], the 100% share of blk-iocost
HWEIGHT_WHOLE == 65536
\* the width of the path column of a table row
PathWidth == 28

None == <<>>
Some(x) == <<x>>
Root == 1
DevNames == {"sda", "sdb"}
Names == {<<"a">>, <<"b">>}
Patterns == {<<>>, <<"a">>, <<"a", "/", "b">>}

VARIABLES
    \* the inspected kernel (read only)
    iocostEnabled,   \* prog['blkcg_root'] and prog['blkcg_policy_iocost'] resolve
    rootTree,        \* blkcg_root.blkg_tree: the root's blkg of every queue, by queue id
    nMembers,        \* the blkcgs are 1..nMembers, blkcg_root is 1
    children,        \* css.children of each blkcg, in list order
    kn_name,         \* css.cgroup.kn.name of each blkcg
    online,          \* css.flags & CSS_ONLINE of each blkcg
    blkg_tree,       \* blkg_tree of each non-root blkcg at the target queue: None or Some([pd])
    active_list,     \* the blkcgs whose iocg is on the controller's active list
    period_us,       \* ioc.period_us
    vtime_rate,      \* ioc.vtime_rate
    vtime,           \* iocg.vtime of each blkcg
    done_vtime,      \* iocg.done_vtime of each blkcg
    NR_USAGE_SLOTS,  \* prog['NR_USAGE_SLOTS']
    usage_idx,       \* iocg.usage_idx of each blkcg
    usages,          \* iocg.usages of each blkcg, a function on 0..NR_USAGE_SLOTS-1
    \* the command line
    devname, args_cgroup, args_json,
    \* the script
    pc,              \* the statement the script is at
    table_fmt, filter_re, q_id, ioc,
    blkgs,           \* the list of the BlkgIterator of the current tick
    cursor,          \* the position of the for loop in blkgs
    output,          \* the output string, as its lines
    iocg_stat,       \* the IocgStat built last
    stdout,          \* what the last print wrote
    stderr,          \* the messages written to stderr
    exit_status,     \* the status of sys.exit
    prints,          \* the prints since the tick began
    sleeps,          \* the sleeps since the tick began
    ever_printed     \* something was printed on stdout

kernel == <<iocostEnabled, rootTree, nMembers, children, kn_name, online, blkg_tree,
            active_list, period_us, vtime_rate, vtime, done_vtime, NR_USAGE_SLOTS,
            usage_idx, usages>>
args == <<devname, args_cgroup, args_json>>
vars == <<kernel, args, pc, table_fmt, filter_re, q_id, ioc, blkgs, cursor, output,
          iocg_stat, stdout, stderr, exit_status, prints, sleeps, ever_printed>>

\* ----------------------------------------------------------------- helpers
Members == 1..nMembers

SeqsUpTo(S, n) == UNION {[1..k -> S] : k \in 0..n}

RECURSIVE SortedSeq(_, _)
SortedSeq(S, rev) ==
    IF S = {} THEN <<>>
    ELSE LET m == IF rev THEN CHOOSE x \in S : \A y \in S : y <= x
                         ELSE CHOOSE x \in S : \A y \in S : x <= y
         IN <<m>> \o SortedSeq(S \ {m}, rev)

\* The hierarchies on 1..n: every blkcg but the root has one parent of a
\* smaller number; the siblings are listed in rising or in falling order.
Hierarchies(n) ==
    {[m \in 1..n |-> SortedSeq({c \in 2..n : p[c] = m}, rev)] :
        p \in {f \in [2..n -> 1..n] : \A c \in 2..n : f[c] < c}, rev \in BOOLEAN}

ParentOf(c) == CHOOSE m \in Members : \E i \in 1..Len(children[m]) : children[m][i] = c

RECURSIVE IsAncestor(_, _)
IsAncestor(a, m) ==
    /\ m # Root
    /\ \/ ParentOf(m) = a
       \/ IsAncestor(a, ParentOf(m))

IsPrefix(s, t) == Len(s) <= Len(t) /\ SubSeq(t, 1, Len(s)) = s

\* The root blkg trees: one blkg per queue, the queues of distinct devices.
RootEntries == [dev : DevNames, pd : BOOLEAN, fault : BOOLEAN]
RootTrees ==
    {t \in SeqsUpTo(RootEntries, MaxQueues) :
        \A i, j \in 1..Len(t) : t[i].dev = t[j].dev => i = j}

\* ------------------------------------------------------------ start-up code
\* A Python true division: a float, or the ZeroDivisionError it raises.
TrueDiv(a, b) ==
    IF b = 0 THEN [fault |-> TRUE, num |-> 0, den |-> 0]
    ELSE [fault |-> FALSE, num |-> a, den |-> b]

IntZero == [fault |-> FALSE, num |-> 0, den |-> 1]

\* re_str of the --cgroup options: the patterns joined by '|'.
RECURSIVE JoinPatterns(_, _)
JoinPatterns(re_str, rs) ==
    IF rs = <<>> THEN re_str
    ELSE JoinPatterns(IF re_str = None THEN Some(Head(rs))
                      ELSE Some(re_str[1] \o <<"|">> \o Head(rs)),
                      Tail(rs))

\* re.compile of a pattern of literal characters and '|': its alternatives.
RECURSIVE Alternatives(_, _)
Alternatives(cur, s) ==
    IF s = <<>> THEN <<cur>>
    ELSE IF Head(s) = "|" THEN <<cur>> \o Alternatives(<<>>, Tail(s))
    ELSE Alternatives(Append(cur, Head(s)), Tail(s))

re_compile(re_str) == Alternatives(<<>>, re_str)

\* filter_re.match(path): some alternative matches at the start of the path.
re_match(re, path) == \E i \in 1..Len(re) : IsPrefix(re[i], path)

\* filter_re = re.compile(re_str) if re_str else None
FilterOf(cgroup) ==
    LET re_str == JoinPatterns(None, cgroup)
    IN IF re_str # None /\ re_str[1] # <<>> THEN Some(re_compile(re_str[1])) ELSE None

\* The loop over blkcg_root.blkg_tree from queue i on: the first blkg whose
\* device name reads without a fault and equals devname ends the loop.
RECURSIVE LocateFrom(_)
LocateFrom(i) ==
    IF i > Len(rootTree) THEN [q_id |-> None, ioc |-> None]
    ELSE IF ~rootTree[i].fault /\ rootTree[i].dev = devname
         THEN [q_id |-> Some(i), ioc |-> IF rootTree[i].pd THEN Some(i) ELSE None]
         ELSE LocateFrom(i + 1)

\* --------------------------------------------------------------- the walk
\* radix_tree_lookup(blkcg.blkg_tree, q_id) wrapped as a struct blkcg_gq.
radix_tree_lookup(blkcg, q) ==
    IF blkcg = Root THEN Some([blkcg |-> Root, pd |-> rootTree[q].pd])
    ELSE IF blkg_tree[blkcg] = None THEN None
    ELSE Some([blkcg |-> blkcg, pd |-> blkg_tree[blkcg][1].pd])

RECURSIVE walk(_, _, _, _, _)
RECURSIVE walk_children(_, _, _, _, _)
\* walk, were an offline blkcg skipped but its children still walked.
walk_below_offline(acc, blkcg, q, parent_path, include_dying) ==
    LET name == kn_name[blkcg]
        path == IF parent_path # <<>> THEN parent_path \o <<"/">> \o name ELSE name
        blkg == radix_tree_lookup(blkcg, q)
    IN IF blkg = None THEN acc
       ELSE walk_children(
                IF ~include_dying /\ ~online[blkcg] THEN acc
                ELSE Append(acc, [path |-> IF path # <<>> THEN path ELSE <<"/">>,
                                  blkg |-> blkg[1]]),
                children[blkcg], q, path, include_dying)

\* walk, were a blkcg without a blkg skipped but its children still walked.
walk_below_missing(acc, blkcg, q, parent_path, include_dying) ==
    IF ~include_dying /\ ~online[blkcg] THEN acc
    ELSE LET name == kn_name[blkcg]
             path == IF parent_path # <<>> THEN parent_path \o <<"/">> \o name ELSE name
             blkg == radix_tree_lookup(blkcg, q)
         IN walk_children(
                IF blkg = None THEN acc
                ELSE Append(acc, [path |-> IF path # <<>> THEN path ELSE <<"/">>,
                                  blkg |-> blkg[1]]),
                children[blkcg], q, path, include_dying)

\* walk, were the separator put before the name under an empty parent path too.
walk_leading_separator(acc, blkcg, q, parent_path, include_dying) ==
    IF ~include_dying /\ ~online[blkcg] THEN acc
    ELSE LET name == kn_name[blkcg]
             path == IF blkcg # Root THEN parent_path \o <<"/">> \o name ELSE name
             blkg == radix_tree_lookup(blkcg, q)
         IN IF blkg = None THEN acc
            ELSE walk_children(
                     Append(acc, [path |-> IF path # <<>> THEN path ELSE <<"/">>,
                                  blkg |-> blkg[1]]),
                     children[blkcg], q, path, include_dying)

\* BlkgIterator.walk: the list self.blkgs after walking blkcg.
walk(acc, blkcg, q, parent_path, include_dying) ==
    IF ~include_dying /\ ~online[blkcg] THEN acc
    ELSE LET name == kn_name[blkcg]
             path == IF parent_path # <<>> THEN parent_path \o <<"/">> \o name ELSE name
             blkg == radix_tree_lookup(blkcg, q)
         IN IF blkg = None THEN acc
            ELSE walk_children(
                     Append(acc, [path |-> IF path # <<>> THEN path ELSE <<"/">>,
                                  blkg |-> blkg[1]]),
                     children[blkcg], q, path, include_dying)

\* The for loop over css.children.
walk_children(acc, cs, q, path, include_dying) ==
    IF cs = <<>> THEN acc
    ELSE walk_children(walk(acc, Head(cs), q, path, include_dying),
                       Tail(cs), q, path, include_dying)

BlkgIterator(root_blkcg, q, include_dying) == walk(<<>>, root_blkcg, q, <<>>, include_dying)

\* ---------------------------------------------------------- the statistics
\* inflight_pct of IocgStat without the test of period_vtime.
InflightPct_unguarded(blkcg) ==
    TrueDiv((vtime[blkcg] - done_vtime[blkcg]) * 100, period_us * vtime_rate)

\* inflight_pct of IocgStat.
InflightPct(blkcg) ==
    LET vdone == done_vtime[blkcg]
        vt == vtime[blkcg]
        vrate == vtime_rate
        period_vtime == period_us * vrate
    IN IF period_vtime # 0 THEN TrueDiv((vt - vdone) * 100, period_vtime)
       ELSE IntZero

\* The loop over range(NR_USAGE_SLOTS): the usages list read from the
\* storage slots store, starting at slot idx.
UsagesOf_unrotated(store, idx, n) ==
    [k \in 1..n |-> TrueDiv(store[(k - 1) % n] * 100, HWEIGHT_WHOLE)]

UsagesOf(store, idx, n) ==
    [k \in 1..n |-> TrueDiv(store[(idx + (k - 1)) % n] * 100, HWEIGHT_WHOLE)]

\* usages of IocgStat.
Usages(blkcg) == UsagesOf(usages[blkcg], usage_idx[blkcg], NR_USAGE_SLOTS)

RECURSIVE MaxNum(_, _)
MaxNum(cur, us) ==
    IF us = <<>> THEN cur
    ELSE MaxNum(IF Head(us).num > cur THEN Head(us).num ELSE cur, Tail(us))

\* IocgStat, were the test of the active list inverted.
IocgStat_inverted(blkcg) ==
    [ is_active |-> blkcg \notin active_list,
      inflight_pct |-> InflightPct(blkcg),
      usages |-> Usages(blkcg),
      usage |-> TrueDiv(MaxNum(0, Usages(blkcg)), HWEIGHT_WHOLE) ]

IocgStat(blkcg) ==
    [ is_active |-> blkcg \in active_list,
      inflight_pct |-> InflightPct(blkcg),
      usages |-> Usages(blkcg),
      usage |-> TrueDiv(MaxNum(0, Usages(blkcg)), HWEIGHT_WHOLE) ]

\* path[-28:]
LastChars(path) ==
    IF Len(path) > PathWidth THEN SubSeq(path, Len(path) - PathWidth + 1, Len(path))
    ELSE path

table_row_str(stat, item) ==
    [kind |-> "row", path |-> LastChars(item.path), blkcg |-> item.blkg.blkcg, stat |-> Some(stat)]

iocg_dict(stat, item) ==
    [kind |-> "iocg", path |-> item.path, blkcg |-> item.blkg.blkcg, stat |-> Some(stat)]

\* The lines of the controller: '\n' + preamble + '\n' + header after the
\* empty string, or the controller's JSON object.
Preamble == [kind |-> "preamble", path |-> <<>>, blkcg |-> 0, stat |-> None]
Header == [kind |-> "header", path |-> <<>>, blkcg |-> 0, stat |-> None]
IocDict == [kind |-> "ioc", path |-> <<>>, blkcg |-> 0, stat |-> None]

\* output + '\n' + s and output + s, the output kept as its lines.
AddLine_before(out, s) == <<<<s>>>> \o out
AddLine(out, s) == Append(out, <<s>>)
AddText(out, s) == [out EXCEPT ![Len(out)] = @ \o <<s>>]
EmptyString == << <<>> >>

\* ------------------------------------------------------------ initial states
ScriptInit ==
    /\ pc = "start"
    /\ table_fmt = FALSE
    /\ filter_re = None
    /\ q_id = None
    /\ ioc = None
    /\ blkgs = <<>>
    /\ cursor = 0
    /\ output = <<>>
    /\ iocg_stat = None
    /\ stdout = None
    /\ stderr = <<>>
    /\ exit_status = None
    /\ prints = 0
    /\ sleeps = 0
    /\ ever_printed = FALSE

BlkgStates == {None, Some([pd |-> FALSE]), Some([pd |-> TRUE])}

\* The groups that can be on the active list: those with an iocg.
WithIocg == {Root} \cup {m \in 2..nMembers : blkg_tree[m] = Some([pd |-> TRUE])}

\* A kernel with the target device's controller attached at queue 1.
DeviceAttached ==
    /\ iocostEnabled = TRUE
    /\ rootTree = <<[dev |-> devname, pd |-> TRUE, fault |-> FALSE]>>

HierarchyIn(ns) ==
    /\ nMembers \in ns
    /\ children \in Hierarchies(nMembers)
    /\ kn_name \in {f \in [Members -> Names \cup {<<>>}] :
                        f[Root] = <<>> /\ \A m \in 2..nMembers : f[m] \in Names}

OneGroup ==
    /\ nMembers = 1
    /\ children = [m \in {Root} |-> <<>>]
    /\ kn_name = [m \in {Root} |-> <<>>]
    /\ online = [m \in {Root} |-> TRUE]
    /\ blkg_tree = [m \in {} |-> None]

CountersAtRest ==
    /\ period_us = 1
    /\ vtime_rate = 1
    /\ vtime = [m \in Members |-> 0]
    /\ done_vtime = [m \in Members |-> 0]
    /\ NR_USAGE_SLOTS = 1
    /\ usage_idx = [m \in Members |-> 0]
    /\ usages = [m \in Members |-> [i \in {0} |-> 0]]

\* Every hierarchy, liveness and blkg population; no --cgroup option.
InitWalk ==
    /\ ScriptInit
    /\ devname \in DevNames
    /\ args_cgroup = <<>>
    /\ args_json \in BOOLEAN
    /\ DeviceAttached
    /\ HierarchyIn(1..MaxMembers)
    /\ online \in [Members -> BOOLEAN]
    /\ blkg_tree \in [2..nMembers -> {None, Some([pd |-> TRUE])}]
    /\ active_list = WithIocg
    /\ CountersAtRest

\* A line of n blkcgs and a root with n - 1 children.
Chain(n) == [m \in 1..n |-> IF m < n THEN <<m + 1>> ELSE <<>>]
Star(n) == [m \in 1..n |-> IF m = Root THEN [i \in 1..(n - 1) |-> i + 1] ELSE <<>>]

\* Every --cgroup option list over every population of iocgs, active or not.
InitFilter ==
    /\ ScriptInit
    /\ devname = "sda"
    /\ args_cgroup \in SeqsUpTo(Patterns, MaxPatterns)
    /\ args_json \in BOOLEAN
    /\ DeviceAttached
    /\ nMembers \in 1..MaxMembers
    /\ children \in {Chain(nMembers), Star(nMembers)}
    /\ kn_name \in {f \in [Members -> Names \cup {<<>>}] :
                        f[Root] = <<>> /\ \A m \in 2..nMembers : f[m] \in Names}
    /\ online = [m \in Members |-> TRUE]
    /\ blkg_tree \in [2..nMembers -> BlkgStates \ {None}]
    /\ active_list \in SUBSET WithIocg
    /\ CountersAtRest

\* Every hierarchy with every population of iocgs, all of them active.
InitOrder ==
    /\ ScriptInit
    /\ devname = "sda"
    /\ args_cgroup = <<>>
    /\ args_json \in BOOLEAN
    /\ DeviceAttached
    /\ HierarchyIn(1..MaxMembers)
    /\ online = [m \in Members |-> TRUE]
    /\ blkg_tree \in [2..nMembers -> BlkgStates \ {None}]
    /\ active_list = WithIocg
    /\ CountersAtRest

\* Every root blkg tree and device name.
InitDevice ==
    /\ ScriptInit
    /\ devname \in DevNames
    /\ args_cgroup = <<>>
    /\ args_json \in BOOLEAN
    /\ iocostEnabled \in BOOLEAN
    /\ rootTree \in RootTrees
    /\ OneGroup
    /\ active_list \in SUBSET {Root}
    /\ CountersAtRest

\* Every virtual-time counter of the root group.
InitInflight ==
    /\ ScriptInit
    /\ devname = "sda"
    /\ args_cgroup = <<>>
    /\ args_json \in BOOLEAN
    /\ DeviceAttached
    /\ OneGroup
    /\ active_list = {Root}
    /\ period_us \in 0..MaxPeriod
    /\ vtime_rate \in 0..MaxRate
    /\ vtime \in [Members -> 0..MaxVtime]
    /\ done_vtime \in [Members -> 0..MaxVtime]
    /\ NR_USAGE_SLOTS = 1
    /\ usage_idx = [m \in Members |-> 0]
    /\ usages = [m \in Members |-> [i \in {0} |-> 0]]

\* Every usage ring of the root group.
InitRing ==
    /\ ScriptInit
    /\ devname = "sda"
    /\ args_cgroup = <<>>
    /\ args_json \in BOOLEAN
    /\ DeviceAttached
    /\ OneGroup
    /\ active_list = {Root}
    /\ period_us = 1
    /\ vtime_rate = 1
    /\ vtime = [m \in Members |-> 0]
    /\ done_vtime = [m \in Members |-> 0]
    /\ NR_USAGE_SLOTS \in 1..MaxSlots
    /\ usage_idx \in [Members -> 0..MaxUsageIdx]
    /\ usages \in [Members -> [0..(NR_USAGE_SLOTS - 1) -> 0..MaxUsage]]

\* ------------------------------------------------------------------ actions
\* err(s): print on stderr and sys.exit(1).
err(s) ==
    /\ stderr' = Append(stderr, s)
    /\ exit_status' = Some(1)
    /\ pc' = "exited"

\* Lines 40-44: resolve blkcg_root and the iocost policy id.
Start ==
    /\ pc = "start"
    /\ IF iocostEnabled
       THEN pc' = "args" /\ UNCHANGED <<stderr, exit_status>>
       ELSE err("The kernel does not have iocost enabled")
    /\ UNCHANGED <<kernel, args, table_fmt, filter_re, q_id, ioc, blkgs, cursor, output,
                   iocg_stat, stdout, prints, sleeps, ever_printed>>

\* Lines 209-224: the output format and the compiled filter.
HandleArgs ==
    /\ pc = "args"
    /\ table_fmt' = IF args_json THEN FALSE ELSE ~args_json
    /\ filter_re' = FilterOf(args_cgroup)
    /\ pc' = "locate"
    /\ UNCHANGED <<kernel, args, q_id, ioc, blkgs, cursor, output, iocg_stat, stdout,
                   stderr, exit_status, prints, sleeps, ever_printed>>

\* Lines 227-241: look for the device among the root's blkgs.
LocateRoots ==
    /\ pc = "locate"
    /\ q_id' = LocateFrom(1).q_id
    /\ ioc' = LocateFrom(1).ioc
    /\ pc' = "check"
    /\ UNCHANGED <<kernel, args, table_fmt, filter_re, blkgs, cursor, output, iocg_stat,
                   stdout, stderr, exit_status, prints, sleeps, ever_printed>>

\* CheckIoc, were the test left out.
CheckIoc_unchecked ==
    /\ pc = "check"
    /\ pc' = "tick"
    /\ UNCHANGED <<kernel, args, table_fmt, filter_re, q_id, ioc, blkgs, cursor, output,
                   iocg_stat, stdout, stderr, exit_status, prints, sleeps, ever_printed>>

\* Lines 243-244: no controller, no monitoring.
CheckIoc ==
    /\ pc = "check"
    /\ IF ioc = None
       THEN err("Could not find ioc")
       ELSE pc' = "tick" /\ UNCHANGED <<stderr, exit_status>>
    /\ UNCHANGED <<kernel, args, table_fmt, filter_re, q_id, ioc, blkgs, cursor, output,
                   iocg_stat, stdout, prints, sleeps, ever_printed>>

\* Lines 248-256: the time, the controller's statistics and their lines.
TickBegin ==
    /\ pc = "tick"
    /\ output' = IF table_fmt
                 THEN AddLine(AddLine(EmptyString, Preamble), Header)
                 ELSE AddText(EmptyString, IocDict)
    /\ prints' = 0
    /\ sleeps' = 0
    /\ pc' = "walk"
    /\ UNCHANGED <<kernel, args, table_fmt, filter_re, q_id, ioc, blkgs, cursor, iocg_stat,
                   stdout, stderr, exit_status, ever_printed>>

\* Line 258: BlkgIterator(blkcg_root, q_id), a fresh walk.
Walk ==
    /\ pc = "walk"
    /\ blkgs' = BlkgIterator(Root, q_id[1], FALSE)
    /\ cursor' = 1
    /\ pc' = "nodes"
    /\ UNCHANGED <<kernel, args, table_fmt, filter_re, q_id, ioc, output, iocg_stat,
                   stdout, stderr, exit_status, prints, sleeps, ever_printed>>

\* Lines 258-273: one turn of the loop over the walked blkgs.
NodeStep ==
    /\ pc = "nodes"
    /\ cursor <= Len(blkgs)
    /\ LET item == blkgs[cursor]
           stat == IocgStat(item.blkg.blkcg)
       IN IF filter_re # None /\ ~re_match(filter_re[1], item.path)
          THEN UNCHANGED <<output, iocg_stat>>
          ELSE IF ~item.blkg.pd
          THEN UNCHANGED <<output, iocg_stat>>
          ELSE /\ iocg_stat' = Some(stat)
               /\ IF filter_re = None /\ ~stat.is_active
                  THEN UNCHANGED output
                  ELSE IF table_fmt
                  THEN output' = AddLine(output, table_row_str(stat, item))
                  ELSE output' = AddLine(output, iocg_dict(stat, item))
    /\ cursor' = cursor + 1
    /\ UNCHANGED <<kernel, args, pc, table_fmt, filter_re, q_id, ioc, blkgs, stdout,
                   stderr, exit_status, prints, sleeps, ever_printed>>

\* Emit, were the print inside the loop over the blkgs.
Emit_in_loop ==
    /\ pc = "nodes"
    /\ stdout' = Some(output)
    /\ prints' = prints + 1
    /\ ever_printed' = TRUE
    /\ pc' = IF cursor > Len(blkgs) THEN "sleep" ELSE "nodes"
    /\ UNCHANGED <<kernel, args, table_fmt, filter_re, q_id, ioc, blkgs, cursor, output,
                   iocg_stat, stderr, exit_status, sleeps>>

\* Lines 275-276: after the last blkg, print the output and flush.
Emit ==
    /\ pc = "nodes"
    /\ cursor > Len(blkgs)
    /\ stdout' = Some(output)
    /\ prints' = prints + 1
    /\ ever_printed' = TRUE
    /\ pc' = "sleep"
    /\ UNCHANGED <<kernel, args, table_fmt, filter_re, q_id, ioc, blkgs, cursor, output,
                   iocg_stat, stderr, exit_status, sleeps>>

\* Line 277: time.sleep(interval), then the next turn of while True.
Sleep ==
    /\ pc = "sleep"
    /\ sleeps' = sleeps + 1
    /\ pc' = "tick"
    /\ UNCHANGED <<kernel, args, table_fmt, filter_re, q_id, ioc, blkgs, cursor, output,
                   iocg_stat, stdout, stderr, exit_status, prints, ever_printed>>

Next ==
    \/ Start
    \/ HandleArgs
    \/ LocateRoots
    \/ CheckIoc
    \/ TickBegin
    \/ Walk
    \/ NodeStep
    \/ Emit
    \/ Sleep

Spec == InitWalk /\ [][Next]_vars
SpecFilter == InitFilter /\ [][Next]_vars
SpecOrder == InitOrder /\ [][Next]_vars
SpecDevice == InitDevice /\ [][Next]_vars
SpecInflight == InitInflight /\ [][Next]_vars
SpecRing == InitRing /\ [][Next]_vars
\* One thread runs the statements one after the other and time.sleep returns.
FairSpec == InitOrder /\ [][Next]_vars /\ WF_vars(Next)

\* ------------------------------------------------------------- vocabulary
Sampling == {"tick", "walk", "nodes", "sleep"}

\* blkgs holds the walk of the current tick.
Walked == pc \in {"nodes", "sleep"}

\* The blkcgs of the walk output.
InWalk == {blkgs[i].blkg.blkcg : i \in 1..Len(blkgs)}

EntryOf(m) == blkgs[CHOOSE i \in 1..Len(blkgs) : blkgs[i].blkg.blkcg = m]

HasBlkg(m) == m = Root \/ blkg_tree[m] # None

Descendants(m) == {d \in Members : IsAncestor(m, d)}

\* The output of the tick has been printed.
Printed == pc = "sleep"

LineKind(l) == IF l = <<>> THEN "blank" ELSE l[1].kind

\* The positions of the node records in the printed output.
NodeLines == {i \in 1..Len(output) : LineKind(output[i]) \in {"row", "iocg"}}

\* The blkcgs with a record in the printed output.
Shown == {output[i][1].blkcg : i \in NodeLines}

\* ------------------------------------------------------------------ claims
\* C1, as stated: with include_dying false an offline blkcg is left out of
\* the walk output while every online descendant of it that has a blkg of
\* the target queue is in the walk output.
C1_DescendantsOfOfflineWalked ==
    Walked =>
        \A m \in Members : ~online[m] =>
            /\ m \notin InWalk
            /\ \A d \in Descendants(m) : online[d] /\ HasBlkg(d) => d \in InWalk

\* C1, amended: with include_dying false an offline blkcg is left out of the
\* walk output and so is every descendant of it, online or not: the walk
\* returns before the loop over the children.
C1_OfflinePrunesSubtree ==
    Walked =>
        \A m \in Members : ~online[m] =>
            /\ m \notin InWalk
            /\ \A d \in Descendants(m) : d \notin InWalk

\* An offline blkcg that the walk reached has an online child with a blkg.
C1_Witness ==
    /\ Walked
    /\ \E m \in 2..nMembers : \E d \in 2..nMembers :
          /\ ParentOf(m) \in InWalk
          /\ ~online[m]
          /\ HasBlkg(m)
          /\ ParentOf(d) = m
          /\ online[d]
          /\ HasBlkg(d)

\* C2, as stated: a blkcg without a blkg of the target queue is not in the
\* walk output, and its children that are online and have a blkg are.
C2_ChildrenOfMissingWalked ==
    Walked =>
        \A m \in 2..nMembers : online[m] /\ ~HasBlkg(m) /\ ParentOf(m) \in InWalk =>
            /\ m \notin InWalk
            /\ \A c \in 2..nMembers :
                  ParentOf(c) = m /\ online[c] /\ HasBlkg(c) => c \in InWalk

\* C2, amended: a blkcg without a blkg of the target queue is not in the walk
\* output and neither is any descendant of it; this is not fatal, the walk
\* goes on with its siblings: those online with a blkg are in the output.
C2_MissingPrunesSubtree ==
    Walked =>
        \A m \in 2..nMembers : online[m] /\ ~HasBlkg(m) /\ ParentOf(m) \in InWalk =>
            /\ m \notin InWalk
            /\ \A d \in Descendants(m) : d \notin InWalk
            /\ \A s \in 2..nMembers :
                  ParentOf(s) = ParentOf(m) /\ online[s] /\ HasBlkg(s) => s \in InWalk

\* A reached online blkcg without a blkg has an online child with one.
C2_Witness ==
    /\ Walked
    /\ \E m \in 2..nMembers : \E c \in 2..nMembers :
          /\ ParentOf(m) \in InWalk
          /\ online[m]
          /\ ~HasBlkg(m)
          /\ ParentOf(c) = m
          /\ online[c]
          /\ HasBlkg(c)

\* The path a walk entry stands for: the label "/" is the empty path.
PathBehind(label) == IF label = <<"/">> THEN <<>> ELSE label
LabelOf(path) == IF path = <<>> THEN <<"/">> ELSE path

\* C10: the path of a walked blkcg is its parent's path, "/" and its name;
\* under an empty parent path it is the name alone; an empty path is shown
\* as "/".
C10_PathOfParentAndName ==
    Walked =>
        \A i \in 1..Len(blkgs) :
            LET m == blkgs[i].blkg.blkcg
            IN IF m = Root
               THEN blkgs[i].path = LabelOf(kn_name[Root])
               ELSE /\ ParentOf(m) \in InWalk
                    /\ LET pp == PathBehind(EntryOf(ParentOf(m)).path)
                       IN blkgs[i].path =
                            IF pp = <<>> THEN LabelOf(kn_name[m])
                            ELSE pp \o <<"/">> \o kn_name[m]

\* The walk holds the root as "/", a child of the root under its bare name
\* and a grandchild under "child/name".
C10_Witness ==
    /\ Walked
    /\ \E i, j, k \in 1..Len(blkgs) :
          /\ blkgs[i].blkg.blkcg = Root
          /\ blkgs[i].path = <<"/">>
          /\ blkgs[j].path = kn_name[blkgs[j].blkg.blkcg]
          /\ blkgs[j].blkg.blkcg # Root
          /\ ParentOf(blkgs[j].blkg.blkcg) = Root
          /\ blkgs[k].blkg.blkcg # Root
          /\ ParentOf(blkgs[k].blkg.blkcg) = blkgs[j].blkg.blkcg
          /\ Len(blkgs[k].path) = 3

\* C3, as stated: with --cgroup patterns given, a walked blkg that has
\* policy data has a record in the printed output exactly if one of the
\* patterns matches its path from the start, active or not.
C3_PatternsDecide ==
    Printed /\ args_cgroup # <<>> =>
        \A i \in 1..Len(blkgs) : blkgs[i].blkg.pd =>
            (blkgs[i].blkg.blkcg \in Shown
                <=> \E k \in 1..Len(args_cgroup) : IsPrefix(args_cgroup[k], blkgs[i].path))

\* C4: without a --cgroup option a walked blkg has a record in the printed
\* output exactly if its iocg is on the active list, in both output modes.
C4_ActiveOnlyByDefault ==
    Printed /\ args_cgroup = <<>> =>
        \A i \in 1..Len(blkgs) :
            (blkgs[i].blkg.blkcg \in Shown <=> blkgs[i].blkg.blkcg \in active_list)

\* Without a pattern the walk holds an iocg off the active list and a
\* non-root iocg on it, and the output is printed.
C4_Witness ==
    /\ Printed
    /\ args_cgroup = <<>>
    /\ \E i, j \in 1..Len(blkgs) :
          /\ blkgs[i].blkg.pd
          /\ blkgs[i].blkg.blkcg \notin active_list
          /\ blkgs[j].blkg.blkcg # Root
          /\ blkgs[j].blkg.blkcg \in active_list

\* No controller is attached to the device: iocost is missing from the
\* kernel, or no root blkg of that device name carries policy data.
NoController ==
    \/ ~iocostEnabled
    \/ \A i \in 1..Len(rootTree) :
          rootTree[i].fault \/ rootTree[i].dev # devname \/ ~rootTree[i].pd

\* C5: without a controller the script never samples and never prints a
\* sample; once start-up is over it has exited with status 1 and a message
\* on stderr, and takes no further step.
C5_InitFailsForGood ==
    NoController =>
        /\ pc \notin Sampling
        /\ ~ever_printed
        /\ stdout = None
        /\ pc \notin {"start", "args", "locate", "check"} =>
              /\ pc = "exited"
              /\ exit_status = Some(1)
              /\ stderr # <<>>
              /\ ~ENABLED Next

\* The device is found, its blkg has no policy data, and the script exited.
C5_Witness ==
    /\ pc = "exited"
    /\ iocostEnabled
    /\ q_id # None
    /\ \E i \in 1..Len(rootTree) :
          ~rootTree[i].fault /\ rootTree[i].dev = devname /\ ~rootTree[i].pd

\* C6: sampling is never left; a tick prints once, after the last walked
\* blkg, and sleeps once before the next tick begins; every tick is
\* followed by a print and every print by another tick.
C6_SamplingForEver ==
    /\ [][/\ pc \in Sampling => pc' \in Sampling
          /\ prints' <= 1
          /\ sleeps' <= 1
          /\ prints' = prints + 1 => pc = "nodes" /\ cursor > Len(blkgs) /\ pc' = "sleep"
          /\ pc = "sleep" => prints = 1 /\ sleeps = 0
          /\ pc = "sleep" /\ pc' # pc => pc' = "tick" /\ sleeps' = 1
          /\ pc' = "tick" /\ pc \in Sampling => pc = "sleep"]_vars
    /\ (pc = "tick") ~> (pc = "sleep" /\ prints = 1)
    /\ (pc = "sleep") ~> (pc = "tick" /\ sleeps = 1)

\* A second tick is about to begin after a tick with several blkgs.
C6_Witness ==
    /\ pc = "tick"
    /\ ever_printed
    /\ prints = 1
    /\ sleeps = 1
    /\ Len(blkgs) > 1

\* i is an index map that rises strictly.
Rising(f, n) == \A a, b \in 1..n : a < b => f[a] < f[b]

\* The node records of the output, top down.
RECURSIVE NodeRecords(_)
NodeRecords(out) ==
    IF out = <<>> THEN <<>>
    ELSE IF LineKind(Head(out)) \in {"row", "iocg"}
         THEN <<Head(out)[1].blkcg>> \o NodeRecords(Tail(out))
         ELSE NodeRecords(Tail(out))

\* C7: the printed output begins with the controller's lines (the JSON
\* object, or an empty line, the preamble and the header); all that follows
\* is node records, one line each, no blkg twice, in the order of the walk;
\* and the walk lists a blkcg before its descendants and the subtrees of
\* siblings in the order of the children list.
C7_ControllerThenWalkOrder ==
    Printed =>
        LET head == IF table_fmt THEN 3 ELSE 1
            recs == NodeRecords(output)
        IN /\ stdout = Some(output)
           /\ Len(output) >= head
           /\ IF table_fmt
              THEN /\ output[1] = <<>>
                   /\ output[2] = <<Preamble>>
                   /\ output[3] = <<Header>>
              ELSE output[1] = <<IocDict>>
           /\ \A i \in 1..Len(output) :
                 i > head => Len(output[i]) = 1
                             /\ output[i][1].kind = (IF table_fmt THEN "row" ELSE "iocg")
           /\ \E f \in [1..Len(recs) -> 1..Len(blkgs)] :
                 /\ Rising(f, Len(recs))
                 /\ \A i \in 1..Len(recs) : recs[i] = blkgs[f[i]].blkg.blkcg
           /\ \A i, j \in 1..Len(blkgs) :
                 LET a == blkgs[i].blkg.blkcg
                     b == blkgs[j].blkg.blkcg
                 IN /\ i # j => a # b
                    /\ IsAncestor(a, b) => i < j
                    /\ \A m \in Members : \A x, y \in 1..Len(children[m]) :
                          /\ x < y
                          /\ (a = children[m][x] \/ IsAncestor(children[m][x], a))
                          /\ (b = children[m][y] \/ IsAncestor(children[m][y], b))
                          => i < j

\* Table output after a walk that lists two blkcgs in falling order of
\* their numbers, with several records and a walked blkg left out.
C7_Witness ==
    /\ Printed
    /\ table_fmt
    /\ Len(NodeRecords(output)) >= 2
    /\ Len(NodeRecords(output)) < Len(blkgs)
    /\ \E i, j \in 1..Len(blkgs) :
          i < j /\ blkgs[i].blkg.blkcg > blkgs[j].blkg.blkcg

\* The statistics in the node records of the output, with their blkcg.
StatsShown == {[blkcg |-> output[i][1].blkcg, stat |-> output[i][1].stat[1]] : i \in NodeLines}

\* C8: when period_us * vtime_rate is zero the inflight_pct of a node is 0
\* and no division faults; otherwise it is
\* (vtime - done_vtime) * 100 / (period_us * vtime_rate).
C8_InflightGuarded ==
    \A r \in StatsShown :
        LET period_vtime == period_us * vtime_rate
            pct == r.stat.inflight_pct
        IN /\ ~pct.fault
           /\ pct.den # 0
           /\ IF period_vtime = 0
              THEN pct.num = 0
              ELSE pct.num * period_vtime
                     = (vtime[r.blkcg] - done_vtime[r.blkcg]) * 100 * pct.den

\* A record is out for a controller with a zero period_vtime and a node with
\* virtual time in flight.
C8_Witness ==
    /\ StatsShown # {}
    /\ period_us * vtime_rate = 0
    /\ vtime_rate # 0
    /\ \E r \in StatsShown : vtime[r.blkcg] > done_vtime[r.blkcg]

\* The storage turned by one slot: up (slot j moves to j + 1) or down.
RotateUp(store, n) == [j \in 0..(n - 1) |-> store[(j + n - 1) % n]]
RotateDown(store, n) == [j \in 0..(n - 1) |-> store[(j + 1) % n]]

\* The list turned by one place: to the left (entry k + 1 moves to k) or right.
ShiftLeft(us, n) == [k \in 1..n |-> us[(k % n) + 1]]
ShiftRight(us, n) == [k \in 1..n |-> us[((k + n - 2) % n) + 1]]

Scaled(u) == TrueDiv(u * 100, HWEIGHT_WHOLE)

\* The usages list of a record is as long as the ring and its k-th entry,
\* counted from 0, is the scaled slot (usage_idx + k) % NR_USAGE_SLOTS.
RingReadFromIdx(r) ==
    /\ Len(r.stat.usages) = NR_USAGE_SLOTS
    /\ \A k \in 0..(NR_USAGE_SLOTS - 1) :
          r.stat.usages[k + 1]
             = Scaled(usages[r.blkcg][(usage_idx[r.blkcg] + k) % NR_USAGE_SLOTS])

\* C9, as stated: the list is read from slot usage_idx on, and turning the
\* storage by one slot (either way) with usage_idx advanced by one gives the
\* list shifted by one place (either way).
C9_RotationShiftsByOne ==
    \A r \in StatsShown :
        LET n == NR_USAGE_SLOTS
            store == usages[r.blkcg]
            idx == usage_idx[r.blkcg]
        IN /\ RingReadFromIdx(r)
           /\ \E turned \in {RotateUp(store, n), RotateDown(store, n)} :
                 UsagesOf(turned, idx + 1, n)
                    \in {ShiftLeft(r.stat.usages, n), ShiftRight(r.stat.usages, n)}

\* C9, amended: the list is read from slot usage_idx on; advancing usage_idx
\* by one over the same storage gives the list shifted left by one place,
\* and turning the storage up by one slot with usage_idx advanced by one
\* gives the same list, not a shifted one.
C9_RingFromIdx ==
    \A r \in StatsShown :
        LET n == NR_USAGE_SLOTS
            store == usages[r.blkcg]
            idx == usage_idx[r.blkcg]
        IN /\ RingReadFromIdx(r)
           /\ UsagesOf(store, idx + 1, n) = ShiftLeft(r.stat.usages, n)
           /\ UsagesOf(RotateUp(store, n), idx + 1, n) = r.stat.usages

\* A record is out for a ring of four slots of which no two neighbours and
\* no two slots two apart are all alike, read from a slot other than 0.
C9_Witness ==
    /\ NR_USAGE_SLOTS = 4
    /\ \E r \in StatsShown :
          /\ usage_idx[r.blkcg] % NR_USAGE_SLOTS # 0
          /\ usages[r.blkcg][0] # usages[r.blkcg][1]
          /\ usages[r.blkcg][0] # usages[r.blkcg][2]
====
